---- MODULE Spec2Model ----
(***************************************************************************)
(* stackhut/build_commands.py: the OS x Stack compatibility dispatch, the  *)
(* shared image build procedure (DockerEnv.build), the stackbuild sweep    *)
(* (StackBuildCmd) and the service build flow (HutBuildCmd).               *)
(*                                                                         *)
(* Python values are tagged records: [kind |-> "obj", cls |-> C] is an     *)
(* instance of class C, [kind |-> "str", abs, segs] a path string and      *)
(* [kind |-> "bool", val] a boolean.  A directory is the sequence of its   *)
(* path segments from the filesystem root.  An exception that leaves an    *)
(* operation is the value of err.                                          *)
(***************************************************************************)
EXTENDS Integers, Sequences, FiniteSets, TLC

VARIABLES
    pc,      \* position of the process: "import", "idle", "sweep", "api", "exit"
    cmd,     \* the command the process runs: "none", "stackbuild", "build", "api"
    args,    \* StackBuildCmd's fields (outdir, push) and the sweep's position i
    cwd,     \* the process working directory (the build context)
    dirs,    \* directories that exist
    files,   \* files that exist: path -> content
    vendor,  \* content of the vendored tree 'stackhut': [state, run]
    trace,   \* what the process did so far: tool invocations (ok: exit status 0;
             \* tree: the vendored tree they found), file writes, rmtree (found:
             \* the path existed), log lines
    err,     \* exception that ended the last operation, "none" if it returned
    last,    \* the last operation: its name, self (a1), its first argument (a2),
             \* its outdir and push, the cwd it started in and what the
             \* dispatch returned
    run,     \* number of the process (processes run one after another)
    ncalls   \* direct calls made by a library client in this process

vars == <<pc, cmd, args, cwd, dirs, files, vendor, trace, err, last, run, ncalls>>

\* Bounds of the model.
MaxRuns == 2
MaxCalls == 2

----------------------------------------------------------------------------
\* Values

Obj(c) == [kind |-> "obj", cls |-> c]
Bool(b) == [kind |-> "bool", val |-> b]
RelPath(segs) == [kind |-> "str", abs |-> FALSE, segs |-> segs]
AbsPath(segs) == [kind |-> "str", abs |-> TRUE, segs |-> segs]
PyNone == [kind |-> "None"]
NoRes == [kind |-> "n/a"]
List(xs) == [kind |-> "list", val |-> xs]
Raised(e) == [kind |-> "raise", exc |-> e]

\* Python truthiness, as `if push:` evaluates it.
Truthy(v) ==
    CASE v.kind = "bool" -> v.val
      [] v.kind = "str" -> v.segs # <<>>
      [] v.kind = "None" -> FALSE
      [] v.kind = "list" -> v.val # <<>>
      [] OTHER -> TRUE

\* The class attribute `name`; "{}".format(None) is "None".
name(o) ==
    CASE o.cls = "Fedora" -> "fedora"
      [] o.cls = "Alpine" -> "alpine"
      [] o.cls = "Python" -> "python"
      [] o.cls = "NodeJS" -> "nodejs"
      [] OTHER -> "None"

RECURSIVE Join(_, _)
\* sep.join(xs)
Join(xs, sep) ==
    IF xs = <<>> THEN ""
    ELSE IF Len(xs) = 1 THEN xs[1]
    ELSE xs[1] \o sep \o Join(Tail(xs), sep)

\* The directory the module was imported in.
root_dir == <<"work">>

\* The catalog.
bases == <<Obj("Fedora"), Obj("Alpine")>>
stacks == <<Obj("Python"), Obj("NodeJS")>>

----------------------------------------------------------------------------
\* BaseOS descriptors

Fedora_os_pkg_cmd(pkgs) == "dnf -y install " \o Join(pkgs, " ")

Fedora_install_os_pkg(pkgs) ==
    << Fedora_os_pkg_cmd(pkgs),
       "dnf -y autoremove",
       "dnf -y clean all",
       "rm -rf /usr/share/locale/*",
       "rm -rf /usr/share/doc/*",
       "journalctl --vacuum-size=0",
       "rm -rf /var/log/* || true",
       "rm -rf /var/cache/*",
       "rm -rf /tmp/*" >>

Alpine_os_pkg_cmd(pkgs) == "apk --update add " \o Join(pkgs, " ")

Alpine_install_os_pkg(pkgs) ==
    << Alpine_os_pkg_cmd(pkgs),
       "rm -rf /usr/share/locale/*",
       "rm -rf /usr/share/doc/*",
       "rm -rf /var/log/* || true",
       "rm -rf /var/cache/*",
       "rm -rf /tmp/*",
       "mkdir /var/cache/apk" >>

install_os_pkg(base_os, pkgs) ==
    IF base_os.cls = "Fedora" THEN Fedora_install_os_pkg(pkgs)
    ELSE Alpine_install_os_pkg(pkgs)

----------------------------------------------------------------------------
\* The BaseOS / Stack dispatch

\* get_stack_install_cmd with the Fedora declarations swapped.
get_stack_install_cmd_swapped(base_os, stack) ==
    IF base_os.kind = "obj" /\ stack.kind = "obj"
    THEN CASE base_os.cls = "Fedora" /\ stack.cls = "Python" -> PyNone
           [] base_os.cls = "Alpine" /\ stack.cls = "Python" -> List(<<>>)
           [] base_os.cls = "Fedora" /\ stack.cls = "NodeJS" -> List(<<>>)
           [] base_os.cls = "Alpine" /\ stack.cls = "NodeJS" ->
                  List(install_os_pkg(base_os, <<"iojs@testing">>))
           [] OTHER -> Raised("NotImplementedError")
    ELSE Raised("AttributeError")

\* The result of get_stack_install_cmd: a list of commands, None (not
\* supported), or the exception of the (object, object) default.
get_stack_install_cmd(base_os, stack) ==
    IF base_os.kind = "obj" /\ stack.kind = "obj"
    THEN CASE base_os.cls = "Fedora" /\ stack.cls = "Python" -> List(<<>>)
           [] base_os.cls = "Alpine" /\ stack.cls = "Python" -> List(<<>>)
           [] base_os.cls = "Fedora" /\ stack.cls = "NodeJS" -> PyNone
           [] base_os.cls = "Alpine" /\ stack.cls = "NodeJS" ->
                  List(install_os_pkg(base_os, <<"iojs@testing">>))
           [] OTHER -> Raised("NotImplementedError")
    ELSE Raised("AttributeError")

\* [x for x in xs if x.name == n][0]
FirstNamed(xs, n) ==
    LET hits == SelectSeq(xs, LAMBDA x: name(x) = n)
    IN  IF hits = <<>> THEN Raised("IndexError") ELSE hits[1]

\* get_base that substitutes the first base for an unknown name.
get_base_default(base_name) ==
    LET hits == SelectSeq(bases, LAMBDA x: name(x) = base_name)
    IN  IF hits = <<>> THEN bases[1] ELSE hits[1]

get_base(base_name) == FirstNamed(bases, base_name)

get_stack(stack_name) == FirstNamed(stacks, stack_name)

----------------------------------------------------------------------------
\* The process state an operation works on, and the filesystem

St == [cwd |-> cwd, dirs |-> dirs, files |-> files, vendor |-> vendor,
       trace |-> trace, err |-> "none"]

Raise(s, e) == [s EXCEPT !.err = e]

Log(s, ev) == [s EXCEPT !.trace = Append(@, ev)]

\* Run F on s unless an exception is already propagating.
Bind(s, F(_)) == IF s.err # "none" THEN s ELSE F(s)

\* os.path.join(a, b) for a path a and a name b
os_path_join(a, b) == [a EXCEPT !.segs = Append(@, b)]

\* The directory a path string denotes in working directory d.
abspath(d, p) == IF p.abs THEN p.segs ELSE d \o p.segs

Parent(d) == SubSeq(d, 1, Len(d) - 1)

IsPrefix(p, q) == Len(p) <= Len(q) /\ SubSeq(q, 1, Len(p)) = p

\* os.mkdir(p): the parent must exist
os_mkdir(s, p) ==
    LET d == abspath(s.cwd, p)
    IN  IF d \in s.dirs THEN Raise(s, "FileExistsError")
        ELSE IF Parent(d) \notin s.dirs THEN Raise(s, "FileNotFoundError")
        ELSE [s EXCEPT !.dirs = @ \cup {d}]

\* open(p, 'w').write(text)
write_file(s, d, text) ==
    [s EXCEPT !.files = [q \in (DOMAIN @) \cup {d} |-> IF q = d THEN text ELSE @[q]]]

\* shutil.rmtree(p, ignore_errors)
shutil_rmtree(s, p, ignore_errors, at) ==
    LET d == abspath(s.cwd, p)
        s1 == Log(s, [op |-> "rmtree", arg |-> Join(p.segs, "/"), at |-> at,
                      found |-> d \in s.dirs])
    IN  IF d \notin s1.dirs
        THEN IF ignore_errors THEN s1 ELSE Raise(s1, "FileNotFoundError")
        ELSE [s1 EXCEPT
                 !.dirs = {x \in @ : ~IsPrefix(d, x)},
                 !.files = [q \in {x \in DOMAIN @ : ~IsPrefix(d, x)} |-> @[q]]]

----------------------------------------------------------------------------
\* DockerEnv.build.  o gives the outcome of each step that can fail:
\* o.render (template lookup and rendering), o.build and o.push (docker).

gen_dockerfile(s, template_name, template_params, o) ==
    IF ~o.render THEN Raise(s, "TemplateError")
    ELSE Log(write_file(s, s.cwd \o <<"Dockerfile">>,
                        [template |-> template_name, params |-> template_params]),
             [op |-> "write", arg |-> "Dockerfile", at |-> 20])

\* build_dockerfile tagging with the bare image name.
build_dockerfile_bare_name(s, image_name, push, o) ==
    LET tag == image_name
        s1 == Log(s, [op |-> "docker_build", arg |-> tag, at |-> 26, ok |-> o.build])
    IN  IF ~o.build THEN Raise(s1, "ErrorReturnCode")
        ELSE IF Truthy(push)
        THEN LET s2 == Log(Log(s1, [op |-> "log", arg |-> "Pushing " \o tag, at |-> 28]),
                           [op |-> "docker_push", arg |-> tag, at |-> 29, ok |-> o.push])
             IN  IF ~o.push THEN Raise(s2, "ErrorReturnCode") ELSE s2
        ELSE s1

build_dockerfile(s, image_name, push, o) ==
    LET tag == "stackhut/" \o image_name \o ":latest"
        s1 == Log(s, [op |-> "docker_build", arg |-> tag, at |-> 26, ok |-> o.build])
    IN  IF ~o.build THEN Raise(s1, "ErrorReturnCode")
        ELSE IF Truthy(push)
        THEN LET s2 == Log(Log(s1, [op |-> "log", arg |-> "Pushing " \o tag, at |-> 28]),
                           [op |-> "docker_push", arg |-> tag, at |-> 29, ok |-> o.push])
             IN  IF ~o.push THEN Raise(s2, "ErrorReturnCode") ELSE s2
        ELSE s1

\* DockerEnv.build returning to the directory it was called in.
DockerEnv_build_back_to_caller(s, template_name, template_params, outdir, image_name, push, o) ==
    IF outdir.kind # "str" THEN Raise(s, "TypeError")
    ELSE
    LET image_dir == os_path_join(outdir, image_name)
        s1 == IF abspath(s.cwd, image_dir) \notin s.dirs
              THEN os_mkdir(s, image_dir) ELSE s
        s2 == Bind(s1, LAMBDA t: [t EXCEPT !.cwd = abspath(t.cwd, image_dir)])
        s3 == Bind(s2, LAMBDA t: gen_dockerfile(t, template_name, template_params, o))
        s4 == Bind(s3, LAMBDA t: build_dockerfile(t, image_name, push, o))
    IN  Bind(s4, LAMBDA t: [t EXCEPT !.cwd = s.cwd])

DockerEnv_build(s, template_name, template_params, outdir, image_name, push, o) ==
    IF outdir.kind # "str" THEN Raise(s, "TypeError")
    ELSE
    LET image_dir == os_path_join(outdir, image_name)
        s1 == IF abspath(s.cwd, image_dir) \notin s.dirs
              THEN os_mkdir(s, image_dir) ELSE s
        s2 == Bind(s1, LAMBDA t: [t EXCEPT !.cwd = abspath(t.cwd, image_dir)])
        s3 == Bind(s2, LAMBDA t: gen_dockerfile(t, template_name, template_params, o))
        s4 == Bind(s3, LAMBDA t: build_dockerfile(t, image_name, push, o))
    IN  Bind(s4, LAMBDA t: [t EXCEPT !.cwd = root_dir])

BaseOS_build(s, self, outdir, push, o) ==
    LET s0 == Log(s, [op |-> "log", arg |-> "Building base " \o name(self), at |-> 49])
        image_name == name(self)
    IN  DockerEnv_build(s0, "Dockerfile-base.txt", [base |-> self],
                        outdir, image_name, push, o)

\* Stack.build without the test for an unsupported pair.
Stack_build_unguarded(s, self, base, outdir, push, o) ==
    IF base.kind # "obj" THEN Raise(s, "AttributeError")
    ELSE
    LET s0 == Log(s, [op |-> "log", at |-> 119,
                      arg |-> "Building base " \o name(base) \o " with stack " \o name(self)])
        image_name == name(base) \o "-" \o name(self)
        stack_install_cmds == get_stack_install_cmd(base, self)
    IN  IF stack_install_cmds.kind = "raise"
        THEN Raise(s0, stack_install_cmds.exc)
        ELSE DockerEnv_build(s0, "Dockerfile-stack.txt",
                 [base |-> base, stack |-> self,
                  stack_install_cmds |-> stack_install_cmds],
                 outdir, image_name, push, o)

Stack_build(s, self, base, outdir, push, o) ==
    IF base.kind # "obj" THEN Raise(s, "AttributeError")
    ELSE
    LET s0 == Log(s, [op |-> "log", at |-> 119,
                      arg |-> "Building base " \o name(base) \o " with stack " \o name(self)])
        image_name == name(base) \o "-" \o name(self)
        stack_install_cmds == get_stack_install_cmd(base, self)
    IN  IF stack_install_cmds.kind = "raise"
        THEN Raise(s0, stack_install_cmds.exc)
        ELSE IF stack_install_cmds.kind # "None"
        THEN DockerEnv_build(s0, "Dockerfile-stack.txt",
                 [base |-> base, stack |-> self,
                  stack_install_cmds |-> stack_install_cmds],
                 outdir, image_name, push, o)
        ELSE s0

----------------------------------------------------------------------------
\* The service build flow

\* str.lower() on the names a manifest of the model can hold
Lower(x) ==
    CASE x = "Foo" -> "foo"
      [] x = "Bar" -> "bar"
      [] OTHER -> x

\* Service.__init__ without the .lower() of lines 206 and 207.
Service_init_as_written(hutfile) ==
    LET base == get_base(hutfile.baseos)
        stack == get_stack(hutfile.stack)
    IN  IF base.kind = "raise" THEN base
        ELSE IF stack.kind = "raise" THEN stack
        ELSE [kind |-> "obj", cls |-> "Service",
              name |-> hutfile.name,
              author |-> hutfile.author,
              version |-> "latest",
              base |-> base, stack |-> stack,
              from_image |-> name(base) \o "-" \o name(stack)]

\* Service.__init__: the service, or the exception get_base / get_stack raise
Service_init(hutfile) ==
    LET base == get_base(hutfile.baseos)
        stack == get_stack(hutfile.stack)
    IN  IF base.kind = "raise" THEN base
        ELSE IF stack.kind = "raise" THEN stack
        ELSE [kind |-> "obj", cls |-> "Service",
              name |-> Lower(hutfile.name),
              author |-> Lower(hutfile.author),
              version |-> "latest",
              base |-> base, stack |-> stack,
              from_image |-> name(base) \o "-" \o name(stack)]

\* "{}/{}:{}".format(service.author, service.name, service.version)
format_docker_name(service) ==
    service.author \o "/" \o service.name \o ":" \o service.version

\* write_dockerfile(rendered_template, dir), a function build_commands.py
\* calls and neither defines nor imports: the rendered text becomes the file
\* dir/Dockerfile (the file docker build -f reads at line 257).
write_dockerfile(s, rendered_template, dir) ==
    LET d == s.cwd \o <<dir>>
        s1 == [s EXCEPT !.dirs = @ \cup {d}]
    IN  Log(write_file(s1, d \o <<"Dockerfile">>, rendered_template),
            [op |-> "write", arg |-> dir \o "/Dockerfile", at |-> 243])

\* sh.barrister with its exit status ignored.
sh_barrister_unchecked(s, o) ==
    Log(s, [op |-> "barrister", arg |-> "service.idl", at |-> 247, ok |-> o.barrister])

sh_barrister(s, o) ==
    LET s1 == Log(s, [op |-> "barrister", arg |-> "service.idl", at |-> 247, ok |-> o.barrister])
    IN  IF o.barrister THEN s1 ELSE Raise(s1, "ErrorReturnCode")

\* git clone <url> stackhut: refuses an existing destination; a clone that
\* fails may leave a partial tree behind (o.left).
sh_git_clone(s, o, r) ==
    LET d == s.cwd \o <<"stackhut">>
        s1 == Log(s, [op |-> "git_clone", arg |-> "stackhut", at |-> 251,
                      ok |-> (d \notin s.dirs /\ o.clone), tree |-> s.vendor])
    IN  IF d \in s1.dirs THEN Raise(s1, "ErrorReturnCode")
        ELSE IF o.clone
        THEN [s1 EXCEPT !.dirs = @ \cup {d, d \o <<".git">>},
                        !.vendor = [state |-> "cloned", run |-> r]]
        ELSE IF o.left
        THEN Raise([s1 EXCEPT !.dirs = @ \cup {d},
                              !.vendor = [state |-> "partial", run |-> r]],
                   "ErrorReturnCode")
        ELSE Raise(s1, "ErrorReturnCode")

\* The vendored tree after an rmtree below it.
VendorSync(s) ==
    IF s.cwd \o <<"stackhut">> \notin s.dirs
    THEN [s EXCEPT !.vendor = [state |-> "absent", run |-> 0]]
    ELSE IF s.cwd \o <<"stackhut", ".git">> \notin s.dirs /\ s.vendor.state = "cloned"
    THEN [s EXCEPT !.vendor.state = "stripped"]
    ELSE s

\* sh.docker('build', '-f', '.stackhut/Dockerfile', '-t', docker_name, ...)
HutBuildCmd_docker_build(s, docker_name, o) ==
    LET s1 == Log(s, [op |-> "docker_build", arg |-> docker_name, at |-> 257,
                      ok |-> o.build, tree |-> s.vendor])
    IN  IF o.build THEN s1 ELSE Raise(s1, "ErrorReturnCode")

\* The push of lines 259-261 without its test of self.args.push.
HutBuildCmd_push_always(s, push, docker_name, o) ==
    LET s1 == Log(Log(s, [op |-> "log", arg |-> "Pushing " \o docker_name, at |-> 260]),
                  [op |-> "docker_push", arg |-> docker_name, at |-> 261, ok |-> o.push])
    IN  IF o.push THEN s1 ELSE Raise(s1, "ErrorReturnCode")

\* if self.args.push: sh.docker('push', '-f', docker_name)
HutBuildCmd_push(s, push, docker_name, o) ==
    IF push
    THEN LET s1 == Log(Log(s, [op |-> "log", arg |-> "Pushing " \o docker_name, at |-> 260]),
                       [op |-> "docker_push", arg |-> docker_name, at |-> 261, ok |-> o.push])
         IN  IF o.push THEN s1 ELSE Raise(s1, "ErrorReturnCode")
    ELSE s

\* HutBuildCmd.run without the rmtree of line 250.
HutBuildCmd_run_keeping_tree(s, hutfile, push, o, r, bound) ==
    LET service == Service_init(hutfile)
    IN  IF service.kind = "raise" THEN Raise(s, service.exc)
        ELSE
        LET rendered_template ==
                [template |-> "Dockerfile-service.txt", params |-> [service |-> service]]
            docker_name == format_docker_name(service)
            s1 == IF o.render THEN s ELSE Raise(s, "TemplateError")
            s2 == Bind(s1, LAMBDA t:
                      IF bound THEN write_dockerfile(t, rendered_template, ".stackhut")
                      ELSE Raise(t, "NameError"))
            s3 == Bind(s2, LAMBDA t: sh_barrister(t, o))
            s4 == s3
            s5 == Bind(s4, LAMBDA t: sh_git_clone(t, o, r))
            s6 == Bind(s5, LAMBDA t:
                      VendorSync(shutil_rmtree(t, RelPath(<<"stackhut", ".git">>), FALSE, 252)))
            s7 == Bind(s6, LAMBDA t: HutBuildCmd_docker_build(t, docker_name, o))
            s8 == Bind(s7, LAMBDA t: HutBuildCmd_push(t, push, docker_name, o))
            s9 == Bind(s8, LAMBDA t:
                      VendorSync(shutil_rmtree(t, RelPath(<<"stackhut">>), FALSE, 265)))
        IN  Bind(s9, LAMBDA t:
                Log(t, [op |-> "log", arg |-> service.name \o " build complete", at |-> 266]))

\* HutBuildCmd.run.  bound tells whether the global name write_dockerfile
\* resolves when line 243 calls it; in build_commands.py as it stands it does
\* not, and the call raises NameError.
HutBuildCmd_run(s, hutfile, push, o, r, bound) ==
    LET service == Service_init(hutfile)
    IN  IF service.kind = "raise" THEN Raise(s, service.exc)
        ELSE
        LET rendered_template ==
                [template |-> "Dockerfile-service.txt", params |-> [service |-> service]]
            docker_name == format_docker_name(service)
            s1 == IF o.render THEN s ELSE Raise(s, "TemplateError")
            s2 == Bind(s1, LAMBDA t:
                      IF bound THEN write_dockerfile(t, rendered_template, ".stackhut")
                      ELSE Raise(t, "NameError"))
            s3 == Bind(s2, LAMBDA t: sh_barrister(t, o))
            s4 == Bind(s3, LAMBDA t:
                      VendorSync(shutil_rmtree(t, RelPath(<<"stackhut">>), TRUE, 250)))
            s5 == Bind(s4, LAMBDA t: sh_git_clone(t, o, r))
            s6 == Bind(s5, LAMBDA t:
                      VendorSync(shutil_rmtree(t, RelPath(<<"stackhut", ".git">>), FALSE, 252)))
            s7 == Bind(s6, LAMBDA t: HutBuildCmd_docker_build(t, docker_name, o))
            s8 == Bind(s7, LAMBDA t: HutBuildCmd_push(t, push, docker_name, o))
            s9 == Bind(s8, LAMBDA t:
                      VendorSync(shutil_rmtree(t, RelPath(<<"stackhut">>), FALSE, 265)))
        IN  Bind(s9, LAMBDA t:
                Log(t, [op |-> "log", arg |-> service.name \o " build complete", at |-> 266]))

----------------------------------------------------------------------------
\* Inputs

Outcomes == [render : BOOLEAN, build : BOOLEAN, push : BOOLEAN]

HutOutcomes == [render : BOOLEAN, barrister : BOOLEAN, clone : BOOLEAN,
                left : BOOLEAN, build : BOOLEAN, push : BOOLEAN]

\* --outdir: the default 'stacks', or the same directory given absolutely.
OutDirs == {RelPath(<<"stacks">>), AbsPath(root_dir \o <<"stacks">>)}

\* Manifests: name and author are whatever the Hutfile's author wrote.
Hutfiles ==
    [name : {"Foo"}, author : {"Bar"},
     baseos : {"fedora", "alpine", "debian"},
     stack : {"python", "nodejs", "ruby"}]
    \cup [name : {"c"}, author : {"a/b"}, baseos : {"alpine"}, stack : {"python"}]
    \cup [name : {"b/c"}, author : {"a"}, baseos : {"alpine"}, stack : {"python"}]

\* Instances a library client can pass: the catalog's and a plain BaseOS().
ApiBases == {Obj("Fedora"), Obj("Alpine"), Obj("BaseOS")}
ApiStacks == {Obj("Python"), Obj("NodeJS")}

NoLast == [op |-> "none", cwd0 |-> root_dir, a1 |-> PyNone, a2 |-> PyNone,
           outdir |-> PyNone, res |-> NoRes, push |-> PyNone]

NoArgs == [outdir |-> RelPath(<<>>), push |-> Bool(FALSE), i |-> 0]

\* [(b, s) for b in bases for s in stacks]
Pairs ==
    [k \in 1..(Len(bases) * Len(stacks)) |->
        [b |-> bases[((k - 1) \div Len(stacks)) + 1],
         s |-> stacks[((k - 1) % Len(stacks)) + 1]]]

NUnits == Len(bases) + Len(Pairs)

Put(s) ==
    /\ cwd' = s.cwd
    /\ dirs' = s.dirs
    /\ files' = s.files
    /\ vendor' = s.vendor
    /\ trace' = s.trace
    /\ err' = s.err

----------------------------------------------------------------------------
\* A process starts in root_dir; the output directory may be there already.
Init ==
    /\ pc = "import"
    /\ cmd = "none"
    /\ args = NoArgs
    /\ cwd = root_dir
    /\ dirs \in {{<<>>, root_dir}, {<<>>, root_dir, root_dir \o <<"stacks">>}}
    /\ files = << >>
    /\ vendor = [state |-> "absent", run |-> 0]
    /\ trace = << >>
    /\ err = "none"
    /\ last = NoLast
    /\ run = 1
    /\ ncalls = 0

\* Loading the module: root_dir is recorded, the dispatch table and the
\* catalog lists are built.  Nothing is checked.
Import ==
    /\ pc = "import"
    /\ pc' = "idle"
    /\ UNCHANGED <<cmd, args, cwd, dirs, files, vendor, trace, err, last, run, ncalls>>

\* StackBuildCmd.__init__
StackBuildCmd_init ==
    /\ pc = "idle"
    /\ \E outdir \in OutDirs, push \in BOOLEAN :
          LET s == IF abspath(cwd, outdir) \notin dirs THEN os_mkdir(St, outdir) ELSE St
          IN  /\ Put(s)
              /\ args' = [outdir |-> outdir, push |-> Bool(push), i |-> 1]
              /\ pc' = IF s.err # "none" THEN "exit" ELSE "sweep"
              /\ last' = [NoLast EXCEPT !.op = "StackBuildCmd.__init__", !.cwd0 = cwd]
    /\ cmd' = "stackbuild"
    /\ UNCHANGED <<run, ncalls>>

\* StackBuildCmd.run, one element of its two list comprehensions per step:
\* b.build(outdir, push) for the bases, then s.build(outdir, push, b) for
\* the pairs, and the closing log line after the last one.
StackBuildCmd_run ==
    /\ pc = "sweep"
    /\ \E o \in Outcomes :
          LET i == args.i
              p == Pairs[i - Len(bases)]
              s == IF i <= Len(bases)
                   THEN BaseOS_build(St, bases[i], args.outdir, args.push, o)
                   ELSE Stack_build(St, p.s, args.outdir, args.push, p.b, o)
              fin == s.err = "none" /\ i = NUnits
          IN  /\ Put(IF fin THEN Log(s, [op |-> "log", arg |-> "All images built", at |-> 199])
                     ELSE s)
              /\ last' = IF i <= Len(bases)
                         THEN [op |-> "BaseOS.build", cwd0 |-> cwd, a1 |-> bases[i],
                               a2 |-> PyNone, outdir |-> args.outdir, res |-> NoRes,
                               push |-> args.push]
                         ELSE [op |-> "Stack.build", cwd0 |-> cwd, a1 |-> p.s,
                               a2 |-> args.outdir, outdir |-> args.push, res |-> NoRes,
                               push |-> p.b]
              /\ pc' = IF s.err # "none" \/ i = NUnits THEN "exit" ELSE "sweep"
              /\ args' = [args EXCEPT !.i = i + 1]
    /\ UNCHANGED <<cmd, run, ncalls>>

\* HutBuildCmd.run
HutBuildCmd_step(bound) ==
    /\ pc = "idle"
    /\ \E hutfile \in Hutfiles, push \in BOOLEAN, o \in HutOutcomes :
          /\ Put(HutBuildCmd_run(St, hutfile, push, o, run, bound))
          /\ last' = [op |-> "HutBuildCmd.run", cwd0 |-> cwd, a1 |-> hutfile,
                      a2 |-> Bool(push), outdir |-> PyNone, res |-> NoRes,
                      push |-> Bool(push)]
    /\ cmd' = "build"
    /\ pc' = "exit"
    /\ UNCHANGED <<args, run, ncalls>>

\* `stackhut build` on build_commands.py as it stands.
HutBuildCmd == HutBuildCmd_step(FALSE)

\* `stackhut build` with a write_dockerfile supplied to the module.
HutBuildCmd_with_write_dockerfile == HutBuildCmd_step(TRUE)

\* A library client calls b.build(outdir, push) and catches what it raises.
\* Library clients are explored in the first process, where the output
\* directory 'stacks' exists or not, as Init chose.
ApiBaseOS_build ==
    /\ pc \in {"idle", "api"}
    /\ run = 1
    /\ ncalls < MaxCalls
    /\ \E b \in {Obj("Fedora"), Obj("Alpine")}, outdir \in OutDirs,
          push \in BOOLEAN, o \in Outcomes :
          /\ Put(BaseOS_build(St, b, outdir, Bool(push), o))
          /\ last' = [op |-> "BaseOS.build", cwd0 |-> cwd, a1 |-> b,
                      a2 |-> PyNone, outdir |-> outdir, res |-> NoRes,
                      push |-> Bool(push)]
    /\ cmd' = "api"
    /\ pc' = "api"
    /\ ncalls' = ncalls + 1
    /\ UNCHANGED <<args, run>>

\* A library client calls s.build(base, outdir, push) and catches what it raises.
ApiStack_build ==
    /\ pc \in {"idle", "api"}
    /\ run = 1
    /\ ncalls < MaxCalls
    /\ \E s \in ApiStacks, b \in ApiBases, outdir \in OutDirs,
          push \in BOOLEAN, o \in Outcomes :
          /\ Put(Stack_build(St, s, b, outdir, Bool(push), o))
          /\ last' = [op |-> "Stack.build", cwd0 |-> cwd, a1 |-> s,
                      a2 |-> b, outdir |-> outdir, res |-> get_stack_install_cmd(b, s),
                      push |-> Bool(push)]
    /\ cmd' = "api"
    /\ pc' = "api"
    /\ ncalls' = ncalls + 1
    /\ UNCHANGED <<args, run>>

\* A library client resolves a pair.
Api_get_stack_install_cmd ==
    /\ pc \in {"idle", "api"}
    /\ run = 1
    /\ ncalls < MaxCalls
    /\ \E s \in ApiStacks, b \in ApiBases :
          LET r == get_stack_install_cmd(b, s)
          IN  /\ last' = [op |-> "get_stack_install_cmd", cwd0 |-> cwd, a1 |-> s,
                          a2 |-> b, outdir |-> PyNone, res |-> r,
                          push |-> PyNone]
              /\ err' = IF r.kind = "raise" THEN r.exc ELSE "none"
    /\ cmd' = "api"
    /\ pc' = "api"
    /\ ncalls' = ncalls + 1
    /\ UNCHANGED <<args, run, cwd, dirs, files, vendor, trace>>

\* A command has ended and with it the process; the next process starts in
\* the same directory, on the filesystem the earlier ones left.
Restart ==
    /\ pc = "exit"
    /\ run < MaxRuns
    /\ run' = run + 1
    /\ pc' = "import"
    /\ cmd' = "none"
    /\ args' = NoArgs
    /\ cwd' = root_dir
    /\ trace' = << >>
    /\ err' = "none"
    /\ last' = NoLast
    /\ ncalls' = 0
    /\ UNCHANGED <<dirs, files, vendor>>

Next ==
    \/ Import
    \/ StackBuildCmd_init
    \/ StackBuildCmd_run
    \/ HutBuildCmd
    \/ ApiBaseOS_build
    \/ ApiStack_build
    \/ Api_get_stack_install_cmd
    \/ Restart

Spec == Init /\ [][Next]_vars

\* The same program with write_dockerfile supplied.
NextSupplied ==
    \/ Import
    \/ StackBuildCmd_init
    \/ StackBuildCmd_run
    \/ HutBuildCmd_with_write_dockerfile
    \/ ApiBaseOS_build
    \/ ApiStack_build
    \/ Api_get_stack_install_cmd
    \/ Restart

SpecSupplied == Init /\ [][NextSupplied]_vars

----------------------------------------------------------------------------
\* Properties

BuildOps == {"BaseOS.build", "Stack.build"}
HutOp == "HutBuildCmd.run"
ToolNames == {"barrister", "git_clone", "docker_build", "docker_push"}

Ops(tr) == [k \in 1..Len(tr) |-> tr[k].op]
ToolCalls(tr) == Ops(SelectSeq(tr, LAMBDA e : e.op \in ToolNames))
BuiltTags(tr) ==
    LET b == SelectSeq(tr, LAMBDA e : e.op = "docker_build")
    IN  [k \in 1..Len(b) |-> b[k].arg]
Happened(tr, op, at) == \E k \in 1..Len(tr) : tr[k].op = op /\ tr[k].at = at

\* Failures of the environment: a tool, the template engine, the filesystem.
EnvFailures == {"ErrorReturnCode", "TemplateError", "FileNotFoundError", "FileExistsError"}

BaseNames == {name(bases[k]) : k \in 1..Len(bases)}
StackNames == {name(stacks[k]) : k \in 1..Len(stacks)}

\* C1: when a call of BaseOS.build or Stack.build (and so of DockerEnv.build)
\* has ended, by returning or by raising, the working directory is the one
\* the call started in.
C1_BuildContextRestored ==
    last.op \in BuildOps => cwd = last.cwd0

\* C2: a service build for a manifest of the catalog in which nothing of the
\* environment failed has invoked the contract compiler, the source fetch
\* and the image build once each, in that order, followed by one push
\* exactly when push was requested, and no other tool.
C2_ServiceBuildToolOrder ==
    (/\ last.op = HutOp
     /\ last.a1.baseos \in BaseNames
     /\ last.a1.stack \in StackNames
     /\ err \notin EnvFailures) =>
        ToolCalls(trace) = <<"barrister", "git_clone", "docker_build">>
                           \o (IF last.a2.val THEN <<"docker_push">> ELSE << >>)

\* C3: a sweep in which nothing of the environment failed ends without an
\* exception, having built the two bases first and then the three supported
\* combinations, and nothing else.
C3_SweepBuildsEverySupportedImage ==
    (cmd = "stackbuild" /\ pc = "exit" /\ err \notin EnvFailures) =>
        /\ err = "none"
        /\ Len(BuiltTags(trace)) = 5
        /\ SubSeq(BuiltTags(trace), 1, 2) =
               <<"stackhut/fedora:latest", "stackhut/alpine:latest">>
        /\ {BuiltTags(trace)[k] : k \in 3..5} =
               {"stackhut/fedora-python:latest", "stackhut/alpine-python:latest",
                "stackhut/alpine-nodejs:latest"}

\* C4: a sweep that a failing tool ended has attempted every unit.
C4_SiblingUnitsStillAttempted ==
    (cmd = "stackbuild" /\ pc = "exit" /\ err = "ErrorReturnCode") => args.i > NUnits

\* C5: a service build that failed after the build-description file was
\* written has attempted the cleanup (the rmtree of line 265).
C5_CleanupAttemptedOnFailure ==
    (last.op = HutOp /\ err # "none" /\ Happened(trace, "write", 243)) =>
        Happened(trace, "rmtree", 265)

\* C6: after a service build that succeeded neither '.stackhut' nor
\* 'stackhut' exists; after a catalog build that succeeded the staging
\* directory exists.
C6_StagingRemovedAfterServiceBuild ==
    /\ (last.op = HutOp /\ err = "none") =>
           /\ last.cwd0 \o <<".stackhut">> \notin dirs
           /\ last.cwd0 \o <<"stackhut">> \notin dirs
    /\ (last.op = "BaseOS.build" /\ err = "none") =>
           abspath(last.cwd0, os_path_join(last.outdir, name(last.a1))) \in dirs

\* C7: a pair without a declaration is reported when the module is loaded:
\* NotImplementedError never comes out of an operation run after the import.
C7_UndeclaredPairDetectedAtConstruction ==
    err = "NotImplementedError" => last.op = "none"

\* C8: the four declared pairs resolve to [], [], None (unsupported) and the
\* Alpine install commands for ["iojs@testing"], and never raise.
C8_DeclaredPairsResolve ==
    last.op = "get_stack_install_cmd" =>
        /\ (last.a2 = Obj("Fedora") /\ last.a1 = Obj("Python")) => last.res = List(<< >>)
        /\ (last.a2 = Obj("Alpine") /\ last.a1 = Obj("Python")) => last.res = List(<< >>)
        /\ (last.a2 = Obj("Fedora") /\ last.a1 = Obj("NodeJS")) => last.res = PyNone
        /\ (last.a2 = Obj("Alpine") /\ last.a1 = Obj("NodeJS")) =>
               last.res = List(<< "apk --update add iojs@testing",
                                  "rm -rf /usr/share/locale/*",
                                  "rm -rf /usr/share/doc/*",
                                  "rm -rf /var/log/* || true",
                                  "rm -rf /var/cache/*",
                                  "rm -rf /tmp/*",
                                  "mkdir /var/cache/apk" >>)
        /\ (name(last.a2) \in BaseNames /\ name(last.a1) \in StackNames) =>
               last.res.kind \in {"list", "None"}

C8_Witness ==
    /\ last.op = "get_stack_install_cmd"
    /\ last.a2 = Obj("Alpine")
    /\ last.a1 = Obj("NodeJS")
    /\ last.res.kind = "list"

\* C9: a call of Stack.build for a pair the dispatch marks unsupported
\* returns normally and leaves the working directory, the directories and
\* the files as they were; it adds nothing but its log line to the trace.
C9_UnsupportedPairSkipped ==
    [][ (last'.op = "Stack.build" /\ last'.res.kind = "None" /\ ncalls' = ncalls + 1) =>
            /\ err' = "none"
            /\ cwd' = cwd
            /\ dirs' = dirs
            /\ files' = files
            /\ Len(trace') >= Len(trace)
            /\ \A k \in (Len(trace) + 1)..Len(trace') : trace'[k].op = "log" ]_vars

C9_Witness ==
    /\ last.op = "Stack.build"
    /\ last.a2 = Obj("Fedora")
    /\ last.a1 = Obj("NodeJS")
    /\ last.res.kind = "None"
    /\ err = "none"

\* C10: a service build whose manifest names a baseos or a stack outside
\* the catalog ends with IndexError, having written no file, invoked no tool
\* and left the working directory alone.
C10_UnknownCatalogEntryFatal ==
    (last.op = HutOp /\ (last.a1.baseos \notin BaseNames \/ last.a1.stack \notin StackNames)) =>
        /\ err = "IndexError"
        /\ trace = << >>
        /\ cwd = last.cwd0

C10_Witness ==
    /\ last.op = HutOp
    /\ last.a1.baseos = "debian"
    /\ last.a1.stack = "python"
    /\ err = "IndexError"

\* The image name and the staging directory of the build call l records.
ImageName(l) ==
    IF l.op = "BaseOS.build" THEN name(l.a1) ELSE name(l.a2) \o "-" \o name(l.a1)
StagingDir(l) == abspath(l.cwd0, os_path_join(l.outdir, ImageName(l)))
ReachesStaging(l) ==
    \/ l.op = "BaseOS.build"
    \/ l.op = "Stack.build" /\ l.res.kind = "list"

\* C11: when the shared build procedure runs a second time in the same
\* process for the same image name and output root, the second run does not
\* end with FileExistsError and its staging directory is the one of the
\* first run.
C11_StagingIdempotent ==
    [][ (/\ ReachesStaging(last) /\ ReachesStaging(last')
         /\ ncalls' = ncalls + 1
         /\ last'.op = last.op /\ last'.a1 = last.a1 /\ last'.a2 = last.a2
         /\ last'.outdir = last.outdir) =>
            /\ err' # "FileExistsError"
            /\ StagingDir(last') = StagingDir(last) ]_vars

\* The build-description file of the service build last records, and the
\* service descriptor it was rendered from.
ServiceDockerfile == last.cwd0 \o <<".stackhut", "Dockerfile">>
RenderedService == files[ServiceDockerfile].params.service

\* C12: in a service build for a manifest of the catalog the descriptor has
\* from_image "<baseos>-<stack>", every invocation of the image build tool
\* carries the tag "<author>/<name>:latest" in lower case, and a build that
\* ended without error has invoked it exactly once; name "Foo", author
\* "Bar", baseos "alpine", stack "python" give "alpine-python" and
\* "bar/foo:latest".
C12_ServiceNaming ==
    (/\ last.op = HutOp
     /\ last.a1.baseos \in BaseNames
     /\ last.a1.stack \in StackNames
     /\ last.a1.name = "Foo" /\ last.a1.author = "Bar") =>
        /\ Happened(trace, "write", 243) =>
              /\ RenderedService.from_image = last.a1.baseos \o "-" \o last.a1.stack
              /\ (last.a1.baseos = "alpine" /\ last.a1.stack = "python") =>
                     RenderedService.from_image = "alpine-python"
        /\ \A k \in 1..Len(trace) :
              trace[k].op = "docker_build" => trace[k].arg = "bar/foo:latest"
        /\ err = "none" => BuiltTags(trace) = <<"bar/foo:latest">>

C12_Witness ==
    /\ last.op = HutOp
    /\ last.a1 = [name |-> "Foo", author |-> "Bar", baseos |-> "alpine", stack |-> "python"]
    /\ err = "none"
    /\ RenderedService.from_image = "alpine-python"
    /\ BuiltTags(trace) = <<"bar/foo:latest">>

\* The components a service's tag and from_image are formatted from.
TagParts(service) == <<service.author, service.name, service.version>>
FromParts(service) == <<name(service.base), name(service.stack)>>
Services == {Service_init(h) : h \in {x \in Hutfiles : Service_init(x).kind = "obj"}}

\* C13: the tag a service build hands to the image build tool, and the
\* from_image of its descriptor, determine their components: no service of
\* another manifest with different (author, name, version) is formatted to
\* the same tag, and none with different (base name, stack name) to the same
\* from_image.
C13_TagsDetermineComponents ==
    (last.op = HutOp /\ Happened(trace, "docker_build", 257)) =>
        \A sv \in Services :
            /\ format_docker_name(sv) \in {BuiltTags(trace)[k] : k \in 1..Len(BuiltTags(trace))}
                  => TagParts(sv) = TagParts(RenderedService)
            /\ sv.from_image = RenderedService.from_image
                  => FromParts(sv) = FromParts(RenderedService)

\* The events the step adds to the trace.
NewEvents == SubSeq(trace', Len(trace) + 1, Len(trace'))
NewBuiltTags == BuiltTags(NewEvents)

\* The from_image of a service whose manifest names the pair (b, s).
FromImageOf(b, s) ==
    Service_init([name |-> "Foo", author |-> "Bar",
                  baseos |-> name(b), stack |-> name(s)]).from_image

\* C14 as claimed: BaseOS.build hands the image build tool the tag
\* "stackhut/<name>:latest"; Stack.build for a supported pair hands it the
\* tag "<base.name>-<stack.name>", the from_image of a service for that pair.
C14_CatalogTags_claimed ==
    [][ /\ last'.op = "BaseOS.build" =>
              \A k \in 1..Len(NewBuiltTags) :
                  NewBuiltTags[k] = "stackhut/" \o name(last'.a1) \o ":latest"
        /\ (last'.op = "Stack.build" /\ last'.res.kind = "list") =>
              \A k \in 1..Len(NewBuiltTags) :
                  /\ NewBuiltTags[k] = name(last'.a2) \o "-" \o name(last'.a1)
                  /\ NewBuiltTags[k] = FromImageOf(last'.a2, last'.a1) ]_vars

\* C14: BaseOS.build hands the image build tool the tag
\* "stackhut/<name>:latest"; Stack.build for a supported pair hands it the
\* tag "stackhut/<base.name>-<stack.name>:latest", whose image name
\* "<base.name>-<stack.name>" is the from_image of a service for that pair.
C14_CatalogTags ==
    [][ /\ last'.op = "BaseOS.build" =>
              \A k \in 1..Len(NewBuiltTags) :
                  NewBuiltTags[k] = "stackhut/" \o name(last'.a1) \o ":latest"
        /\ (last'.op = "Stack.build" /\ last'.res.kind = "list") =>
              \A k \in 1..Len(NewBuiltTags) :
                  /\ NewBuiltTags[k] =
                         "stackhut/" \o name(last'.a2) \o "-" \o name(last'.a1) \o ":latest"
                  /\ NewBuiltTags[k] =
                         "stackhut/" \o FromImageOf(last'.a2, last'.a1) \o ":latest" ]_vars

C14_Witness ==
    /\ last.op = "Stack.build"
    /\ last.a2 = Obj("Alpine")
    /\ last.a1 = Obj("NodeJS")
    /\ err = "none"
    /\ BuiltTags(trace) = <<"stackhut/alpine-nodejs:latest">>

\* C15: in every build unit (a BaseOS.build, a Stack.build, a service build)
\* an external tool that exits non-zero is the last thing the unit does: no
\* tool is invoked and no other step is taken after it, and the unit ends
\* with the tool's error.
C15_ToolFailureAborts ==
    [][ \A k \in 1..Len(NewEvents) :
            (NewEvents[k].op \in ToolNames /\ ~NewEvents[k].ok) =>
                /\ k = Len(NewEvents)
                /\ err' = "ErrorReturnCode"
                /\ cmd' = "stackbuild" => pc' = "exit" ]_vars

C15_Witness ==
    /\ last.op = HutOp
    /\ err = "ErrorReturnCode"
    /\ ToolCalls(trace) = <<"barrister">>
    /\ ~trace[Len(trace)].ok

\* C16: in every build unit the push tool is invoked exactly when the push
\* argument is set and the image build tool succeeded in that unit; it is
\* invoked once, after the build, with the tag that was built.
C16_PushIffFlagAndBuilt ==
    [][ last'.op \in BuildOps \cup {HutOp} =>
            LET builds == {k \in 1..Len(NewEvents) : NewEvents[k].op = "docker_build"}
                pushes == {k \in 1..Len(NewEvents) : NewEvents[k].op = "docker_push"}
            IN  /\ pushes # {} <=>
                       (Truthy(last'.push) /\ \E j \in builds : NewEvents[j].ok)
                /\ \A k \in pushes : \E j \in builds :
                       j < k /\ NewEvents[j].ok /\ NewEvents[j].arg = NewEvents[k].arg
                /\ Cardinality(pushes) <= 1 ]_vars

PushedTags(tr) ==
    LET b == SelectSeq(tr, LAMBDA e : e.op = "docker_push")
    IN  [k \in 1..Len(b) |-> b[k].arg]

C16_Witness ==
    /\ last.op = HutOp
    /\ last.push = Bool(TRUE)
    /\ ToolCalls(trace) = <<"barrister", "git_clone", "docker_build", "docker_push">>
    /\ BuiltTags(trace) = <<"bar/foo:latest">>
    /\ PushedTags(trace) = <<"bar/foo:latest">>
    /\ err = "none"

\* C17: in a service build the fetch is preceded by the removal of the
\* vendored tree and finds no tree in place, and the image build tool runs
\* only against a tree fetched in the current run whose .git was removed.
C17_VendorTreeFresh ==
    last.op = HutOp =>
        \A k \in 1..Len(trace) :
            /\ (trace[k].op = "git_clone") =>
                  /\ trace[k].tree.state = "absent"
                  /\ k > 1 /\ trace[k - 1].op = "rmtree" /\ trace[k - 1].at = 250
            /\ (trace[k].op = "docker_build") =>
                  trace[k].tree = [state |-> "stripped", run |-> run]

\* A retry on top of what a failed run left: the tree was there, was
\* removed, and the image build ran against the tree of the second run.
C17_Witness ==
    /\ last.op = HutOp
    /\ run = 2
    /\ \E k \in 1..Len(trace) : trace[k].op = "rmtree" /\ trace[k].at = 250 /\ trace[k].found
    /\ \E k \in 1..Len(trace) :
          trace[k].op = "docker_build" /\ trace[k].tree = [state |-> "stripped", run |-> 2]

\* Failures of a step DockerEnv.build takes after os.chdir(image_dir).
StagedFailures == {"ErrorReturnCode", "TemplateError"}

====
